---- MODULE Spec2Model ----
(***************************************************************************)
(* Model of "Capex Simulation.py": the population generator, the           *)
(* vectorized Monte Carlo engine (run_vectorized_simulation), the two risk *)
(* sweeps and the breakeven search of main_app.                            *)
(*                                                                         *)
(* Conventions.                                                            *)
(*  - A failure rate is held in whole percent: 90 stands for 0.90; a       *)
(*    probability p likewise (success_rate = 100 - rate).                  *)
(*  - np.random is a process-global pseudo-random generator: a state       *)
(*    (variable rng) that every draw advances and that np.random.seed      *)
(*    sets.  It is modelled by a small linear congruential generator; a    *)
(*    draw is a deterministic function of the generator state.             *)
(*  - A dict is a sequence of entries in insertion order; assigning to a   *)
(*    key already present keeps its position and replaces its value.       *)
(***************************************************************************)
EXTENDS Integers, Sequences, FiniteSets, TLC

\* ---------------------------------------------------------------- bounds
RngMod == 32          \* states of the modelled generator
MaxTraders == 2       \* num_traders / len(trader_accounts) at most
MaxSims == 2          \* n_simulations at most
MaxRates == 2         \* len(failure_rates) at most, when the engine is called directly
PoissonSpread == 2    \* Bernoulli trials per unit of mean in a Poisson draw

\* np.random.seed values tried
Seeds == {0, 7, 13, 22}
MainSeeds == {7, 26}

\* ------------------------------------------------------------- variables
VARIABLES
  pc,                             \* position in the script / in the engine
  rng,                            \* state of the global np.random generator
  seed,                           \* the state an explicit np.random.seed sets
  trader_accounts,                \* TraderPopulation (engine argument)
  n_simulations,
  failure_rates,                  \* engine argument, in percent
  payout_per_successful_account,
  results,                        \* run_vectorized_simulation's local dict
  idx,                            \* position of the for loop in failure_rates
  samplings,                      \* np.random.binomial calls this invocation made
  invocation,                     \* 1 or 2: which engine invocation is running
  reseeded,                       \* invocation 2 was preceded by np.random.seed(seed)
  first_outcome,                  \* what invocation 1 gave: <<pc, results>>
  \* ---- main_app
  distribution_mode,
  num_traders,
  avg_accounts_per_trader,        \* 0: not bound (Randomized mode)
  randomized_account_range,       \* <<>>: not bound (Simulate Average mode)
  cost_per_account,
  additional_revenue,
  total_accounts,
  total_revenue,
  simulation_results,             \* scenario dict
  breakeven_results,              \* breakeven dict
  df_profit,                      \* breakeven table
  axis,                           \* avg_acc / max_range_val of the running sweep
  std_devs_data,                  \* rows collected by the running sweep
  df_risk_analysis,
  tab2,                           \* what the breakeven tab shows
  generations,                    \* populations main_app generated at top level
  engine_calls                    \* every engine call: who called, with what

engine_vars == <<results, idx, samplings, invocation, reseeded, first_outcome>>

widgets == <<distribution_mode, num_traders, avg_accounts_per_trader,
             randomized_account_range, n_simulations, cost_per_account,
             payout_per_successful_account, additional_revenue>>

NotShown == [kind |-> "none", lowest_profitable_rate |-> 0]

main_vars == <<distribution_mode, num_traders, avg_accounts_per_trader,
               randomized_account_range, cost_per_account, additional_revenue,
               total_accounts, total_revenue, simulation_results,
               breakeven_results, df_profit,
               axis, std_devs_data, df_risk_analysis, tab2, generations,
               engine_calls>>

vars == <<pc, rng, seed, trader_accounts, n_simulations, failure_rates,
          payout_per_successful_account, results, idx, samplings,
          invocation, reseeded, first_outcome,
          distribution_mode, num_traders, avg_accounts_per_trader,
          randomized_account_range, cost_per_account, additional_revenue,
          total_accounts, total_revenue, simulation_results,
               breakeven_results, df_profit,
          axis, std_devs_data, df_risk_analysis, tab2, generations,
          engine_calls>>

\* ------------------------------------------------------- sequence helpers
RECURSIVE Sum(_)
Sum(s) == IF s = <<>> THEN 0 ELSE Head(s) + Sum(Tail(s))

SeqsUpTo(S, lo, hi) == UNION {[1..k -> S] : k \in lo..hi}

\* ------------------------------------------------------ np.random (global)
NextRng(g) == (5 * g + 3) % RngMod

\* a uniform integer in 0..k-1 read off the generator state
UniformBelow(g, k) == (g * k) \div RngMod

\* one Bernoulli(p) trial: the generator advances, the trial succeeds when
\* the uniform draw falls below p
bernoulli(p, g) ==
  LET g1 == NextRng(g)
  IN  [val |-> IF UniformBelow(g1, 100) < p THEN 1 ELSE 0, rng |-> g1]

\* np.random.binomial(n, p) for one cell: n Bernoulli(p) trials one after the
\* other, counted (the two halves of the run are evaluated in turn)
RECURSIVE binomial(_, _, _)
binomial(n, p, g) ==
  IF n = 0 THEN [val |-> 0, rng |-> g]
  ELSE IF n = 1 THEN bernoulli(p, g)
  ELSE LET l == binomial(n \div 2, p, g)
           r == binomial(n - (n \div 2), p, l.rng)
       IN  [val |-> l.val + r.val, rng |-> r.rng]

\* one row of the matrix: one binomial cell per trader
RECURSIVE binomial_row(_, _, _)
binomial_row(n, p, g) ==
  IF n = <<>> THEN [row |-> <<>>, rng |-> g]
  ELSE LET c == binomial(Head(n), p, g)
           r == binomial_row(Tail(n), p, c.rng)
       IN  [row |-> <<c.val>> \o r.row, rng |-> r.rng]

\* np.random.binomial(n=trader_accounts, p, size=(rows, len(n))), row-major
RECURSIVE binomial_matrix(_, _, _, _)
binomial_matrix(n, p, rows, g) ==
  IF rows = 0 THEN [matrix |-> <<>>, rng |-> g]
  ELSE LET r == binomial_row(n, p, g)
           m == binomial_matrix(n, p, rows - 1, r.rng)
       IN  [matrix |-> <<r.row>> \o m.matrix, rng |-> m.rng]

\* np.random.binomial raises ValueError on p outside [0,1], on a negative n
\* and on a negative dimension in size
binomial_raises(n, p, rows) ==
  \/ p < 0
  \/ p > 100
  \/ rows < 0
  \/ \E i \in 1..Len(n) : n[i] < 0

\* ------------------------------------------------- run_vectorized_simulation
\* mutant of success_rate: the failure rate used as the success probability
success_rate_NotComplemented(rate) == rate

\* line 102
success_rate(rate) == 100 - rate

\* np.sum(successful_accounts_matrix, axis=1)
total_successful_accounts_per_sim(matrix) == [i \in 1..Len(matrix) |-> Sum(matrix[i])]

\* total_successful_accounts_per_sim * payout_per_successful_account
payouts_for_rate(totals, payout) == [i \in 1..Len(totals) |-> totals[i] * payout]

HasKey(d, k) == \E i \in 1..Len(d) : d[i].rate = k

\* results[rate] = payouts_for_rate; draw names the np.random.binomial call
\* whose matrix the payouts were summed from
DictSet(d, k, v, draw) ==
  IF HasKey(d, k)
  THEN [i \in 1..Len(d) |->
          IF d[i].rate = k THEN [rate |-> k, payouts |-> v, draw |-> draw] ELSE d[i]]
  ELSE Append(d, [rate |-> k, payouts |-> v, draw |-> draw])

\* mutant of RateIteration: the draws come from a generator of the function's
\* own, which np.random.seed does not reset and which moves on from call to call
RateIteration_PrivateGenerator(res, rate, accounts, n, payout, g, calls) ==
  LET m == binomial_matrix(accounts, success_rate(rate), n, (g + invocation) % RngMod)
  IN  [results   |-> DictSet(res, rate,
                             payouts_for_rate(
                               total_successful_accounts_per_sim(m.matrix), payout),
                             calls + 1),
       rng       |-> m.rng,
       samplings |-> calls + 1]

\* mutant of RateIteration: the matrix sampled for the first rate serves the
\* later rates too
RateIteration_SharedMatrix(res, rate, accounts, n, payout, g, calls) ==
  IF res = <<>>
  THEN LET m == binomial_matrix(accounts, success_rate(rate), n, g)
       IN  [results   |-> DictSet(res, rate,
                                  payouts_for_rate(
                                    total_successful_accounts_per_sim(m.matrix),
                                    payout),
                                  calls + 1),
            rng       |-> m.rng,
            samplings |-> calls + 1]
  ELSE [results   |-> DictSet(res, rate, res[1].payouts, res[1].draw),
        rng       |-> g,
        samplings |-> calls]

\* the body of the for loop, for one rate: the dict, the generator and the
\* count of binomial calls after it
RateIteration(res, rate, accounts, n, payout, g, calls) ==
  LET m == binomial_matrix(accounts, success_rate(rate), n, g)
  IN  [results   |-> DictSet(res, rate,
                             payouts_for_rate(
                               total_successful_accounts_per_sim(m.matrix), payout),
                             calls + 1),
       rng       |-> m.rng,
       samplings |-> calls + 1]

\* ---------------------------------------------- the engine, one rate a step
EngineArgs ==
  /\ trader_accounts \in SeqsUpTo({0, 1, 2}, 1, MaxTraders)
  /\ n_simulations \in -1..MaxSims
  /\ failure_rates \in SeqsUpTo({-10, 0, 50, 100, 110}, 0, MaxRates)
  /\ payout_per_successful_account \in {-1, 0, 3}

\* main_app's own state, while the engine is exercised on its own
MainIdle ==
  /\ distribution_mode = "none"
  /\ num_traders = 0
  /\ avg_accounts_per_trader = 0
  /\ randomized_account_range = <<>>
  /\ cost_per_account = 0
  /\ additional_revenue = 0
  /\ total_accounts = 0
  /\ total_revenue = 0
  /\ simulation_results = <<>>
  /\ breakeven_results = <<>>
  /\ df_profit = <<>>
  /\ axis = 0
  /\ std_devs_data = <<>>
  /\ df_risk_analysis = <<>>
  /\ tab2 = NotShown
  /\ generations = 0
  /\ engine_calls = <<>>

InitEngine ==
  /\ EngineArgs
  /\ MainIdle
  /\ seed \in Seeds
  /\ rng = seed
  /\ pc = "loop"
  /\ results = <<>>
  /\ idx = 1
  /\ samplings = 0
  /\ invocation = 1
  /\ reseeded = FALSE
  /\ first_outcome = <<>>

args == <<trader_accounts, n_simulations, failure_rates, payout_per_successful_account>>

\* lines 101-108: one pass of "for rate in failure_rates"
EngineRate ==
  /\ pc = "loop"
  /\ idx <= Len(failure_rates)
  /\ ~binomial_raises(trader_accounts, success_rate(failure_rates[idx]), n_simulations)
  /\ LET it == RateIteration(results, failure_rates[idx], trader_accounts,
                             n_simulations, payout_per_successful_account, rng,
                             samplings)
     IN  /\ results' = it.results
         /\ rng' = it.rng
         /\ samplings' = it.samplings
  /\ idx' = idx + 1
  /\ UNCHANGED <<pc, seed, invocation, reseeded, first_outcome>>
  /\ UNCHANGED args
  /\ UNCHANGED main_vars

\* line 103: np.random.binomial raises; the exception leaves the function
EngineRaise ==
  /\ pc = "loop"
  /\ idx <= Len(failure_rates)
  /\ binomial_raises(trader_accounts, success_rate(failure_rates[idx]), n_simulations)
  /\ pc' = "raised"
  /\ UNCHANGED <<rng, seed, results, idx, samplings, invocation, reseeded, first_outcome>>
  /\ UNCHANGED args
  /\ UNCHANGED main_vars

\* line 109: return results
EngineReturn ==
  /\ pc = "loop"
  /\ idx > Len(failure_rates)
  /\ pc' = "returned"
  /\ UNCHANGED <<rng, seed, results, idx, samplings, invocation, reseeded, first_outcome>>
  /\ UNCHANGED args
  /\ UNCHANGED main_vars

\* a second call with the same arguments, after np.random.seed(seed) or not
InvokeAgain ==
  /\ pc \in {"returned", "raised"}
  /\ invocation = 1
  /\ \E b \in BOOLEAN :
       /\ reseeded' = b
       /\ rng' = IF b THEN seed ELSE rng
  /\ first_outcome' = <<pc, IF pc = "returned" THEN results ELSE <<>> >>
  /\ invocation' = 2
  /\ pc' = "loop"
  /\ results' = <<>>
  /\ idx' = 1
  /\ samplings' = 0
  /\ UNCHANGED seed
  /\ UNCHANGED args
  /\ UNCHANGED main_vars

NextEngine == EngineRate \/ EngineRaise \/ EngineReturn \/ InvokeAgain

SpecEngine == InitEngine /\ [][NextEngine]_vars

\* ------------------------------------- the engine as one call (lines 99-109)
\* the for loop over rates[lo..hi], in order; raised: np.random.binomial
\* raised, and the exception left the function without a result.  The range
\* is split in two halves run one after the other, which keeps the
\* evaluation shallow and is the same left-to-right loop.
RECURSIVE EngineLoop(_, _, _, _, _, _, _, _, _)
EngineLoop(res, lo, hi, accounts, n, rates, payout, g, calls) ==
  IF lo > hi
  THEN [raised |-> FALSE, results |-> res, rng |-> g, samplings |-> calls]
  ELSE IF lo = hi
  THEN IF binomial_raises(accounts, success_rate(rates[lo]), n)
       THEN [raised |-> TRUE, results |-> <<>>, rng |-> g, samplings |-> calls]
       ELSE [raised |-> FALSE] @@
            RateIteration(res, rates[lo], accounts, n, payout, g, calls)
  ELSE LET mid  == (lo + hi) \div 2
           left == EngineLoop(res, lo, mid, accounts, n, rates, payout, g, calls)
       IN  IF left.raised THEN left
           ELSE EngineLoop(left.results, mid + 1, hi, accounts, n, rates, payout,
                           left.rng, left.samplings)

run_vectorized_simulation(accounts, n, rates, payout, g) ==
  EngineLoop(<<>>, 1, Len(rates), accounts, n, rates, payout, g, 0)

\* --------------------------------------------------- population generation
\* np.random.poisson(lam) for one trader: the binomial approximation of the
\* Poisson law, lam * PoissonSpread trials of probability 1 / PoissonSpread
poisson_one(lam, g) == binomial(lam * PoissonSpread, 100 \div PoissonSpread, g)

\* np.random.poisson(lam, size)
RECURSIVE poisson(_, _, _)
poisson(lam, size, g) ==
  IF size = 0 THEN [pop |-> <<>>, rng |-> g]
  ELSE LET c == poisson_one(lam, g)
           r == poisson(lam, size - 1, c.rng)
       IN  [pop |-> <<c.val>> \o r.pop, rng |-> r.rng]

\* np.random.randint(low, high) for one trader: uniform on low..high-1
randint_one(low, high, g) ==
  LET g1 == NextRng(g)
  IN  [val |-> low + UniformBelow(g1, high - low), rng |-> g1]

\* np.random.randint(low=low, high=high, size=size)
RECURSIVE randint(_, _, _, _)
randint(low, high, size, g) ==
  IF size = 0 THEN [pop |-> <<>>, rng |-> g]
  ELSE LET c == randint_one(low, high, g)
           r == randint(low, high, size - 1, c.rng)
       IN  [pop |-> <<c.val>> \o r.pop, rng |-> r.rng]

\* mutant of GenerateTraderAccounts: the upper end of randint one too far
GenerateTraderAccounts_HighPlusTwo(mode, avg, range, size, g) ==
  IF mode = "Simulate Average"
  THEN poisson(avg, size, g)
  ELSE randint(range[1], range[2] + 2, size, g)

\* lines 87-94
GenerateTraderAccounts(mode, avg, range, size, g) ==
  IF mode = "Simulate Average"
  THEN poisson(avg, size, g)
  ELSE randint(range[1], range[2] + 1, size, g)

\* ----------------------------------------------------- financial derivation
scenario_failure_rates == <<90, 85, 80, 75, 50>>

\* np.arange(0.01, 1.00, 0.01)
failure_rate_range == [i \in 1..99 |-> i]

\* f"{int(rate * 100)}%": the float product truncates one short for 0.29, 0.57, 0.58
PercentLabel(rate) == IF rate \in {29, 57, 58} THEN rate - 1 ELSE rate

\* total_revenue - np.mean(payouts), times len(payouts): the sign and the
\* order of profits are those of the quotient, and the numbers stay integers
estimated_profit(revenue, payouts) == revenue * Len(payouts) - Sum(payouts)

\* line 175
profit_data(revenue, res) ==
  [i \in 1..Len(res) |->
     [failure_rate |-> res[i].rate,
      estimated_profit |-> estimated_profit(revenue, res[i].payouts)]]

\* DataFrame.sort_values('failure_rate'): row i goes to the place given by
\* the number of rows that sort before it (ties in their original order)
SortRank(df, i) ==
  1 + Cardinality({j \in 1..Len(df) :
                     \/ df[j].failure_rate < df[i].failure_rate
                     \/ (df[j].failure_rate = df[i].failure_rate /\ j < i)})

sort_values(df) ==
  LET placed == {<<SortRank(df, i), i>> : i \in 1..Len(df)}
  IN  [k \in 1..Len(df) |-> df[(CHOOSE pr \in placed : pr[1] = k)[2]]]

\* mutant of df_profitable: a zero profit counted as profitable
df_profitable_NonNegative(df) == SelectSeq(df, LAMBDA row : row.estimated_profit >= 0)

\* line 239: df_profit[df_profit['estimated_profit'] > 0]
df_profitable(df) == SelectSeq(df, LAMBDA row : row.estimated_profit > 0)

\* df_profitable['failure_rate'].min()
MinRate(df) ==
  CHOOSE r \in {df[i].failure_rate : i \in 1..Len(df)} :
    \A i \in 1..Len(df) : r <= df[i].failure_rate

\* lines 239-256: st.success with the lowest rate, or st.warning
BreakevenSearch(df) ==
  IF df_profitable(df) # <<>>
  THEN [kind |-> "success", lowest_profitable_rate |-> MinRate(df_profitable(df))]
  ELSE [kind |-> "warning", lowest_profitable_rate |-> 0]

\* np.std(payouts) as len^2 times the variance: len * sum(x^2) - sum(x)^2
SumSq(s) == Sum([i \in 1..Len(s) |-> s[i] * s[i]])
std(payouts) == Len(payouts) * SumSq(payouts) - Sum(payouts) * Sum(payouts)

\* mutant of RiskRows: the rows of an axis value sorted by failure rate
RiskRows_SortedByRate(axis_value, sim_res) ==
  sort_values([i \in 1..Len(sim_res) |->
                 [axis_value |-> axis_value,
                  failure_rate |-> sim_res[i].rate,
                  label |-> PercentLabel(sim_res[i].rate),
                  standard_deviation |-> std(sim_res[i].payouts)]])

\* lines 126-131 / 140-145: one row per item of sim_res, in the dict's order
RiskRows(axis_value, sim_res) ==
  [i \in 1..Len(sim_res) |->
     [axis_value |-> axis_value,
      failure_rate |-> sim_res[i].rate,
      label |-> PercentLabel(sim_res[i].rate),
      standard_deviation |-> std(sim_res[i].payouts)]]

\* ---------------------------------------------------------------- main_app
\* the sidebar widgets (lines 66-83), scaled down
Widgets ==
  /\ distribution_mode \in {"Simulate Average", "Randomized"}
  /\ num_traders \in 1..MaxTraders
  /\ IF distribution_mode = "Simulate Average"
     THEN /\ avg_accounts_per_trader \in {1, 3}
          /\ randomized_account_range = <<>>
     ELSE /\ avg_accounts_per_trader = 0
          /\ randomized_account_range \in {<<1, 1>>, <<1, 3>>, <<2, 3>>}
  /\ n_simulations \in 1..MaxSims
  /\ cost_per_account = 2
  /\ payout_per_successful_account \in {1, 3}
  /\ additional_revenue \in {-3, 0}

Init ==
  /\ Widgets
  /\ seed \in MainSeeds
  /\ rng = seed
  /\ pc = "generate"
  /\ trader_accounts = <<>>
  /\ failure_rates = <<>>
  /\ results = <<>>
  /\ idx = 1
  /\ samplings = 0
  /\ invocation = 0
  /\ reseeded = FALSE
  /\ first_outcome = <<>>
  /\ total_accounts = 0
  /\ total_revenue = 0
  /\ simulation_results = <<>>
  /\ breakeven_results = <<>>
  /\ df_profit = <<>>
  /\ axis = 0
  /\ std_devs_data = <<>>
  /\ df_risk_analysis = <<>>
  /\ tab2 = NotShown
  /\ generations = 0
  /\ engine_calls = <<>>

\* an entry of engine_calls; drawn_at: the generator state from which the
\* caller drew the population it passes
Call(caller, population, rates, drawn_at) ==
  [caller |-> caller, population |-> population, failure_rates |-> rates,
   drawn_at |-> drawn_at]

\* lines 86-95: the population and total_accounts
GeneratePopulation ==
  /\ pc = "generate"
  /\ LET gen == GenerateTraderAccounts(distribution_mode, avg_accounts_per_trader,
                                       randomized_account_range, num_traders, rng)
     IN  /\ trader_accounts' = gen.pop
         /\ rng' = gen.rng
         /\ total_accounts' = Sum(gen.pop)
  /\ generations' = generations + 1
  /\ pc' = "revenue"
  /\ UNCHANGED <<seed, failure_rates, total_revenue, simulation_results, breakeven_results, df_profit,
                 axis, std_devs_data, df_risk_analysis, tab2, engine_calls>>
  /\ UNCHANGED <<widgets, engine_vars>>

\* line 150
ComputeRevenue ==
  /\ pc = "revenue"
  /\ total_revenue' = (total_accounts * cost_per_account) + additional_revenue
  /\ pc' = "scenario"
  /\ UNCHANGED <<rng, seed, trader_accounts, failure_rates, total_accounts,
                 simulation_results, breakeven_results, df_profit, axis, std_devs_data,
                 df_risk_analysis, tab2, generations, engine_calls>>
  /\ UNCHANGED <<widgets, engine_vars>>

\* lines 159-160
ScenarioAnalysis ==
  /\ pc = "scenario"
  /\ LET run == run_vectorized_simulation(trader_accounts, n_simulations,
                                          scenario_failure_rates,
                                          payout_per_successful_account, rng)
     IN  /\ simulation_results' = run.results
         /\ rng' = run.rng
  /\ failure_rates' = scenario_failure_rates
  /\ engine_calls' = Append(engine_calls,
                            Call("main_app", trader_accounts, scenario_failure_rates, seed))
  /\ pc' = "breakeven"
  /\ UNCHANGED <<seed, trader_accounts, total_accounts, total_revenue,
                 breakeven_results, df_profit,
                 axis, std_devs_data, df_risk_analysis, tab2, generations>>
  /\ UNCHANGED <<widgets, engine_vars>>

\* mutant of BreakevenAnalysis: the population drawn again for the sweep
BreakevenAnalysis_Regenerates ==
  /\ pc = "breakeven"
  /\ LET gen == GenerateTraderAccounts(distribution_mode, avg_accounts_per_trader,
                                       randomized_account_range, num_traders, rng)
         run == run_vectorized_simulation(gen.pop, n_simulations, failure_rate_range,
                                          payout_per_successful_account, gen.rng)
     IN  /\ trader_accounts' = gen.pop
         /\ breakeven_results' = run.results
         /\ df_profit' = sort_values(profit_data(total_revenue, run.results))
         /\ rng' = run.rng
         /\ engine_calls' = Append(engine_calls,
                                   Call("main_app", gen.pop, failure_rate_range, rng))
  /\ generations' = generations + 1
  /\ pc' = "risk"
  /\ UNCHANGED <<seed, failure_rates, total_accounts, total_revenue,
                 simulation_results, axis, std_devs_data, df_risk_analysis, tab2>>
  /\ UNCHANGED <<widgets, engine_vars>>

\* lines 173-176
BreakevenAnalysis ==
  /\ pc = "breakeven"
  /\ LET run == run_vectorized_simulation(trader_accounts, n_simulations,
                                          failure_rate_range,
                                          payout_per_successful_account, rng)
     IN  /\ breakeven_results' = run.results
         /\ df_profit' = sort_values(profit_data(total_revenue, run.results))
         /\ rng' = run.rng
  /\ engine_calls' = Append(engine_calls,
                            Call("main_app", trader_accounts, failure_rate_range, seed))
  /\ pc' = "risk"
  /\ UNCHANGED <<seed, trader_accounts, failure_rates, total_accounts, total_revenue,
                 simulation_results, axis, std_devs_data, df_risk_analysis, tab2,
                 generations>>
  /\ UNCHANGED <<widgets, engine_vars>>

\* lines 179-182: the call of the sweep of the mode; range(1, 21) / range(2, 21)
RiskAnalysisCall ==
  /\ pc = "risk"
  /\ axis' = IF distribution_mode = "Simulate Average" THEN 1 ELSE 2
  /\ std_devs_data' = <<>>
  /\ pc' = "sweep"
  /\ UNCHANGED <<rng, seed, trader_accounts, failure_rates, total_accounts,
                 total_revenue, simulation_results, breakeven_results, df_profit, df_risk_analysis,
                 tab2, generations, engine_calls>>
  /\ UNCHANGED <<widgets, engine_vars>>

\* mutant of trader_accounts_for_run: the sweep reads main_app's population
trader_accounts_for_run_TopLevel(mode, value, size, g) ==
  [pop |-> trader_accounts, rng |-> g]

\* the population of one sweep point: line 124 / line 138
trader_accounts_for_run(mode, value, size, g) ==
  IF mode = "Simulate Average"
  THEN poisson(value, size, g)
  ELSE randint(1, value + 1, size, g)

\* lines 123-131 / 137-145: one pass of the sweep's for loop
SweepPoint(mode, value, size, n, rates, payout, g) ==
  LET gen == trader_accounts_for_run(mode, value, size, g)
      run == run_vectorized_simulation(gen.pop, n, rates, payout, gen.rng)
  IN  [population |-> gen.pop, rows |-> RiskRows(value, run.results), rng |-> run.rng]

RiskAnalysisStep ==
  /\ pc = "sweep"
  /\ axis < 21
  /\ LET pt == SweepPoint(distribution_mode, axis, num_traders, n_simulations,
                          failure_rates, payout_per_successful_account, rng)
     IN  /\ std_devs_data' = std_devs_data \o pt.rows
         /\ rng' = pt.rng
         /\ engine_calls' = Append(engine_calls,
                                   Call("sweep", pt.population, failure_rates, rng))
  /\ axis' = axis + 1
  /\ UNCHANGED <<pc, seed, trader_accounts, failure_rates, total_accounts,
                 total_revenue, simulation_results, breakeven_results, df_profit, df_risk_analysis,
                 tab2, generations>>
  /\ UNCHANGED <<widgets, engine_vars>>

\* lines 132 / 146: return pd.DataFrame(...)
RiskAnalysisReturn ==
  /\ pc = "sweep"
  /\ axis >= 21
  /\ df_risk_analysis' = std_devs_data
  /\ pc' = "tab2"
  /\ UNCHANGED <<rng, seed, trader_accounts, failure_rates, total_accounts,
                 total_revenue, simulation_results, breakeven_results, df_profit, axis, std_devs_data,
                 tab2, generations, engine_calls>>
  /\ UNCHANGED <<widgets, engine_vars>>

\* lines 237-256
BreakevenTab ==
  /\ pc = "tab2"
  /\ tab2' = BreakevenSearch(df_profit)
  /\ pc' = "done"
  /\ UNCHANGED <<rng, seed, trader_accounts, failure_rates, total_accounts,
                 total_revenue, simulation_results, breakeven_results, df_profit, axis, std_devs_data,
                 df_risk_analysis, generations, engine_calls>>
  /\ UNCHANGED <<widgets, engine_vars>>

Next ==
  \/ GeneratePopulation
  \/ ComputeRevenue
  \/ ScenarioAnalysis
  \/ BreakevenAnalysis
  \/ RiskAnalysisCall
  \/ RiskAnalysisStep
  \/ RiskAnalysisReturn
  \/ BreakevenTab

Spec == Init /\ [][Next]_vars

\* ===================================================================== claims
MainCalls == SelectSeq(engine_calls, LAMBDA c : c.caller = "main_app")
SweepCalls == SelectSeq(engine_calls, LAMBDA c : c.caller = "sweep")
AxisFirst == IF distribution_mode = "Simulate Average" THEN 1 ELSE 2
Batch(d, rate) == d[CHOOSE i \in 1..Len(d) : d[i].rate = rate].payouts

\* C1: within one run main_app generates one population; total_accounts and
\* total_revenue are computed from it, and it is that same population, whole
\* and unchanged, that the engine receives for the scenario rates and for the
\* breakeven sweep.
C1_OnePopulationPerRun ==
  /\ generations = (IF pc = "generate" THEN 0 ELSE 1)
  /\ pc # "generate" =>
       /\ Len(trader_accounts) = num_traders
       /\ total_accounts = Sum(trader_accounts)
  /\ pc \notin {"generate", "revenue"} =>
       total_revenue = Sum(trader_accounts) * cost_per_account + additional_revenue
  /\ \A i \in 1..Len(MainCalls) : MainCalls[i].population = trader_accounts
  /\ pc \notin {"generate", "revenue", "scenario"} =>
       /\ Len(MainCalls) >= 1
       /\ MainCalls[1].failure_rates = scenario_failure_rates
  /\ pc \notin {"generate", "revenue", "scenario", "breakeven"} =>
       /\ Len(MainCalls) = 2
       /\ MainCalls[2].failure_rates = failure_rate_range

C1_Witness ==
  /\ pc = "done"
  /\ Len(MainCalls) = 2
  /\ Len(trader_accounts) = 2
  /\ trader_accounts[1] # trader_accounts[2]
  /\ Len(simulation_results) = 5
  /\ Len(breakeven_results) = 99

\* C5: the breakeven tab reports the lowest failure rate of the 1%..99% sweep
\* whose estimated profit (total revenue minus the mean payout of the rate's
\* batch) is strictly positive, and the warning when no rate of the sweep has
\* one; it always ends in one of the two.
C5_BreakevenIsLowestProfitable ==
  pc = "done" =>
    LET Profit(r) == total_revenue * n_simulations - Sum(Batch(breakeven_results, r))
        Profitable == {r \in 1..99 : Profit(r) > 0}
    IN  /\ Len(df_profit) = 99
        /\ \A r \in 1..99 : /\ df_profit[r].failure_rate = r
                            /\ df_profit[r].estimated_profit = Profit(r)
        /\ IF Profitable # {}
           THEN /\ tab2.kind = "success"
                /\ tab2.lowest_profitable_rate \in Profitable
                /\ \A r \in Profitable : tab2.lowest_profitable_rate <= r
           ELSE tab2.kind = "warning"

C5_Witness ==
  /\ pc = "done"
  /\ tab2.kind = "success"
  /\ tab2.lowest_profitable_rate > 1
  /\ \E r \in 1..99 : /\ r > tab2.lowest_profitable_rate
                      /\ df_profit[r].estimated_profit <= 0

C5_WitnessNotFound ==
  /\ pc = "done"
  /\ tab2.kind = "warning"
  /\ \E r \in 1..99 : df_profit[r].estimated_profit < 0

\* C6: the sweep gives one row per (axis value, failure rate): axis values
\* 1..20 (average accounts) or 2..20 (range width) ascending, and within an
\* axis value the failure rates in the order they were passed in.
C6_SweepOrder ==
  LET rows == IF pc = "sweep" THEN std_devs_data ELSE df_risk_analysis
      done == IF pc = "sweep" THEN axis - AxisFirst
              ELSE IF pc \in {"tab2", "done"} THEN 21 - AxisFirst ELSE 0
      nr   == Len(failure_rates)
  IN  /\ Len(rows) = done * nr
      /\ \A k \in 1..Len(rows) :
           /\ rows[k].axis_value = AxisFirst + ((k - 1) \div nr)
           /\ rows[k].failure_rate = failure_rates[((k - 1) % nr) + 1]

C6_Witness ==
  /\ pc = "done"
  /\ distribution_mode = "Randomized"
  /\ Len(df_risk_analysis) = 95
  /\ df_risk_analysis[1].axis_value = 2
  /\ df_risk_analysis[95].axis_value = 20
  /\ df_risk_analysis[95].failure_rate = 50

\* C9: the k-th point of the sweep runs the engine once, with every failure
\* rate, on a population of num_traders traders drawn there from the axis
\* value alone: Poisson with mean = the value, or uniform on 1..value.
C9_FreshPopulationPerAxisPoint ==
  /\ Len(SweepCalls) = (IF pc = "sweep" THEN axis - AxisFirst
                        ELSE IF pc \in {"tab2", "done"} THEN 21 - AxisFirst ELSE 0)
  /\ \A k \in 1..Len(SweepCalls) :
       LET c == SweepCalls[k]
           v == AxisFirst + k - 1
       IN  /\ Len(c.population) = num_traders
           /\ c.failure_rates = scenario_failure_rates
           /\ c.population =
                (IF distribution_mode = "Simulate Average"
                 THEN poisson(v, num_traders, c.drawn_at).pop
                 ELSE randint(1, v + 1, num_traders, c.drawn_at).pop)
           /\ distribution_mode = "Randomized" =>
                \A i \in 1..num_traders : c.population[i] \in 1..v

C9_Witness ==
  /\ pc = "done"
  /\ Len(SweepCalls) = 20
  /\ \E k \in 1..20 : SweepCalls[k].population # trader_accounts
  /\ \E k \in 1..19 : SweepCalls[k].population # SweepCalls[k + 1].population

\* C10: a generated population has one entry per trader, none negative, and
\* in Randomized mode every entry lies in low..high, both ends included.
C10_PopulationShape ==
  /\ pc # "generate" =>
       /\ Len(trader_accounts) = num_traders
       /\ \A i \in 1..num_traders : trader_accounts[i] >= 0
       /\ distribution_mode = "Randomized" =>
            \A i \in 1..num_traders :
              /\ randomized_account_range[1] <= trader_accounts[i]
              /\ trader_accounts[i] <= randomized_account_range[2]
  /\ \A k \in 1..Len(SweepCalls) :
       /\ Len(SweepCalls[k].population) = num_traders
       /\ \A i \in 1..num_traders : SweepCalls[k].population[i] >= 0

C10_Witness ==
  /\ pc = "done"
  /\ distribution_mode = "Randomized"
  /\ randomized_account_range = <<1, 3>>
  /\ \E i \in 1..num_traders : trader_accounts[i] = 1
  /\ \E i \in 1..num_traders : trader_accounts[i] = 3

\* ------------------------------------------- claims on the engine called alone
\* the spec's InvalidParameter domain of the engine's arguments
InvalidParameter ==
  \/ \E i \in 1..Len(failure_rates) : failure_rates[i] < 0 \/ failure_rates[i] >= 100
  \/ n_simulations < 1
  \/ payout_per_successful_account < 0

\* the generator state k draws after g
RECURSIVE Advance(_, _)
Advance(g, k) == IF k = 0 THEN g ELSE Advance(NextRng(g), k - 1)

\* C2: with a failure rate outside [0,1), n_simulations < 1 or a negative
\* payout the engine raises, having sampled nothing and returning nothing.
C2_FailsFastOnInvalidParameter ==
  (invocation = 1 /\ InvalidParameter) =>
    /\ pc # "returned"
    /\ samplings = 0
    /\ results = <<>>

\* C3: with n_simulations >= 1, every entry of the batch of failure rate 0
\* is sum(population) * payout_per_successful_account.
C3_ZeroFailureRateExact ==
  \A i \in 1..Len(results) :
    (results[i].rate = 0 /\ n_simulations >= 1) =>
      /\ Len(results[i].payouts) = n_simulations
      /\ \A j \in 1..n_simulations :
           results[i].payouts[j] =
             Sum(trader_accounts) * payout_per_successful_account

C3_Witness ==
  /\ pc = "returned"
  /\ \E i \in 1..Len(results) : results[i].rate = 0
  /\ n_simulations = 2
  /\ Sum(trader_accounts) >= 2
  /\ payout_per_successful_account # 0

\* C4: every returned batch has n_simulations entries, each >= 0 and equal to
\* k * payout_per_successful_account for a count k in 0..sum(population).
C4_BatchShape ==
  pc = "returned" =>
    \A i \in 1..Len(results) :
      /\ Len(results[i].payouts) = n_simulations
      /\ \A j \in 1..Len(results[i].payouts) :
           /\ results[i].payouts[j] >= 0
           /\ \E k \in 0..Sum(trader_accounts) :
                results[i].payouts[j] = k * payout_per_successful_account

C8_FreshSamplingPerRate ==
  /\ samplings = idx - 1
  /\ \A i \in 1..Len(results) :
       /\ results[i].draw \in 1..samplings
       /\ failure_rates[results[i].draw] = results[i].rate
       /\ \A k \in 1..(idx - 1) :
            failure_rates[k] = results[i].rate => k <= results[i].draw
  /\ (invocation = 1 \/ reseeded) =>
       rng = Advance(seed, samplings * n_simulations * Sum(trader_accounts))

C8_Witness ==
  /\ pc = "returned"
  /\ Len(results) = 2
  /\ results[1].draw # results[2].draw
  /\ n_simulations >= 1
  /\ Sum(trader_accounts) >= 1
  /\ rng # seed

====
